---------------------------- MODULE Spec2Model ----------------------------
(***************************************************************************)
(* A model of the noise fuzzing harness (network/src/noise/fuzzing.rs) and *)
(* of the backup chunk predicate (storage/backup/backup-cli/src/utils).    *)
(*                                                                         *)
(* Sockets are modelled by pure operators that take the socket's fields    *)
(* and the call's arguments and give the fields after the call and the     *)
(* value returned; the actions of each specification apply them.           *)
(***************************************************************************)
EXTENDS Integers, Sequences, FiniteSets, TLC

(* ------------------------------ bounds -------------------------------- *)
\* Bytes are 0..MaxByte.
MaxByte == 1
\* Longest data a free-standing FakeSocket is built from, and the cap on the
\* length of a free-standing ExposingSocket's capture log.
MaxData == 3
\* Largest buffer of a read or write call made by an arbitrary caller.
MaxBuf == 2
\* Longest chunk and record handed to should_cut_chunk on its own, the
\* largest max_chunk_size, and the number of records a chunk writer handles.
MaxChunkLen == 4
MaxRecordLen == 3
MaxChunkSize == 11
MaxRecords == 4
\* How many bytes longer than a message 1 the fuzz data may be.
MaxSurplus == 0
\* How many times generate_first_two_messages is called in one process.
NumRuns == 2
MaxCalls == 2

Byte == 0..MaxByte
Modulus == MaxByte + 1

Min(a, b) == IF a < b THEN a ELSE b

RECURSIVE SeqsUpTo(_)
\* All byte sequences of length at most n.
SeqsUpTo(n) ==
    IF n = 0 THEN {<< >>}
    ELSE LET shorter == SeqsUpTo(n - 1)
         IN  shorter \cup {Append(s, b) : s \in {t \in shorter : Len(t) = n - 1}, b \in Byte}

Datas == SeqsUpTo(MaxData)
Bufs == SeqsUpTo(MaxBuf)

\* s[..k] and s[k..] of a slice.
Take(s, k) == SubSeq(s, 1, k)
Drop(s, k) == SubSeq(s, k + 1, Len(s))

(* ----------------------- Poll<io::Result<..>> ------------------------- *)
\* Poll::Ready(Ok(n)); for a read, bytes are what was copied into buf[..n].
Ready(n, bytes) == [poll |-> "Ready", res |-> "Ok", n |-> n, bytes |-> bytes]
\* Poll::Ready(Ok(())) of flush and close.
ReadyUnit == [poll |-> "Ready", res |-> "Ok", n |-> 0, bytes |-> << >>]
\* Poll::Ready(Err(e)).
ReadyErr == [poll |-> "Ready", res |-> "Err", n |-> 0, bytes |-> << >>]
\* Poll::Pending.
Pending == [poll |-> "Pending", res |-> "None", n |-> 0, bytes |-> << >>]
\* The call did not return: an out-of-range slice index panicked.
Panicked == [poll |-> "Panic", res |-> "None", n |-> 0, bytes |-> << >>]
\* No call made yet.
NoRet == [poll |-> "None", res |-> "None", n |-> 0, bytes |-> << >>]

\* A call on a socket: the method, the length of buf, and buf (for a write).
Call(op, n, buf) == [op |-> op, n |-> n, buf |-> buf]
NoCall == Call("none", 0, << >>)

VARIABLES
    \* FakeSocket
    content,      \* FakeSocket.content: the slice not read yet
    original,     \* the data the FakeSocket was built from
    delivered,    \* every byte copied into a reader's buffer so far, in order
    pre,          \* content as it was before the last call
    fcall,        \* the last call made on the FakeSocket
    fret,         \* what that call returned
    \* ExposingSocket
    written,      \* ExposingSocket.written: the capture log
    wire,         \* the bytes the inner socket accepted, in order
    prew,         \* written as it was before the last call
    ecall,        \* the last call made on the ExposingSocket
    iret,         \* what the inner socket returned to that call
    eret,         \* what the ExposingSocket returned to it
    retried,      \* whether that call repeats a write that returned Pending
    \* chunk cutting
    chunk,            \* the bytes of the chunk being filled
    record,           \* the bytes of the record last handled
    max_chunk_size,   \* GlobalBackupOpt.max_chunk_size
    cut,              \* the last result of should_cut_chunk, if it was called
    in_chunk,         \* the number of records in the chunk being filled
    chunks,           \* the chunks closed so far: records and bytes of each
    \* handshake upgrades
    keypair,      \* the Lazy cell of KEYPAIR
    task,         \* the upgrade future of each role
    replay,       \* the responder's ReplayWindowState
    \* fuzz entry points
    fpc,          \* where fuzz_initiator / fuzz_responder is
    frole,        \* which of the two was called
    fdata,        \* its argument
    \* corpus generation
    gpc,          \* where generate_first_two_messages is
    run,          \* the number of the invocation in progress
    sockets,      \* the ExposingSocket pair: log, inbox and dropped, per side
    outs,         \* what each finished invocation returned
    stamps,       \* what each call of the timestamp provider returned
    corpus,       \* what each call of generate_corpus returned, and its choice
    \* one upgrader serving several connections
    attempts,     \* the handshake attempts made with the upgrader
    \* threads calling the entry points
    threads       \* where each thread is, and the key pairs it observed

fakeVars == <<content, original, delivered, pre, fcall, fret>>
expoVars == <<written, wire, prew, ecall, iret, eret, retried>>
chunkVars == <<chunk, record, max_chunk_size, cut, in_chunk, chunks>>
upgVars == <<keypair, task, replay>>
fuzzVars == <<fpc, frole, fdata>>
genVars == <<gpc, run, sockets, outs, stamps, corpus>>
serveVars == <<attempts>>
keysVars == <<threads>>
vars == <<fakeVars, expoVars, chunkVars, upgVars, fuzzVars, genVars,
          serveVars, keysVars>>

(* ---------------------------- FakeSocket ------------------------------ *)
\* A plausible slip: the amount to read ignores what is left.
FakeSocket_to_read_buflen(buflen, contentlen) == buflen

\* let to_read = std::cmp::min(buf.len(), self.content.len());
FakeSocket_to_read(buflen, contentlen) == Min(buflen, contentlen)

\* A plausible slip: the cursor is not advanced.
FakeSocket_poll_read_noadvance(c, buflen) ==
    IF c = << >> THEN [content |-> c, ret |-> Ready(0, << >>)]
    ELSE LET to_read == FakeSocket_to_read(buflen, Len(c))
         IN [content |-> c, ret |-> Ready(to_read, Take(c, to_read))]

\* A plausible slip: an exhausted socket reports Pending (and wakes nobody).
FakeSocket_poll_read_pending(c, buflen) ==
    IF c = << >> THEN [content |-> c, ret |-> Pending]
    ELSE LET to_read == FakeSocket_to_read(buflen, Len(c))
         IN [content |-> Drop(c, to_read), ret |-> Ready(to_read, Take(c, to_read))]

\* A plausible slip: an exhausted socket reports an I/O error.
FakeSocket_poll_read_err(c, buflen) ==
    IF c = << >> THEN [content |-> c, ret |-> ReadyErr]
    ELSE LET to_read == FakeSocket_to_read(buflen, Len(c))
         IN [content |-> Drop(c, to_read), ret |-> Ready(to_read, Take(c, to_read))]

\* FakeSocket::poll_read on content c with a buffer of buflen bytes: the
\* content left and the value returned.  Slicing past the end of buf or of
\* content panics.
FakeSocket_poll_read(c, buflen) ==
    IF c = << >> THEN [content |-> c, ret |-> Ready(0, << >>)]
    ELSE LET to_read == FakeSocket_to_read(buflen, Len(c))
         IN IF to_read > buflen \/ to_read > Len(c)
            THEN [content |-> c, ret |-> Panicked]
            ELSE [content |-> Drop(c, to_read),
                  ret |-> Ready(to_read, Take(c, to_read))]

\* A plausible slip: a write consumes the replay data.
FakeSocket_poll_write_consumes(c, buf) ==
    [content |-> Drop(c, Min(Len(buf), Len(c))), ret |-> Ready(Len(buf), << >>)]

\* FakeSocket::poll_write: Poll::Ready(Ok(buf.len())).
FakeSocket_poll_write(c, buf) == [content |-> c, ret |-> Ready(Len(buf), << >>)]

\* FakeSocket::poll_flush: Poll::Ready(Ok(())).
FakeSocket_poll_flush(c) == [content |-> c, ret |-> ReadyUnit]

\* FakeSocket::poll_close: Poll::Ready(Ok(())).
FakeSocket_poll_close(c) == [content |-> c, ret |-> ReadyUnit]

\* The effect of one call on the FakeSocket's variables.
FakeApply(call, out) ==
    /\ pre' = content
    /\ fcall' = call
    /\ fret' = out.ret
    /\ content' = out.content
    /\ delivered' = delivered \o out.ret.bytes
    /\ UNCHANGED original

FakeRead(buflen) ==
    FakeApply(Call("poll_read", buflen, << >>), FakeSocket_poll_read(content, buflen))
FakeWrite(buf) ==
    FakeApply(Call("poll_write", Len(buf), buf), FakeSocket_poll_write(content, buf))
FakeFlush == FakeApply(Call("poll_flush", 0, << >>), FakeSocket_poll_flush(content))
FakeClose == FakeApply(Call("poll_close", 0, << >>), FakeSocket_poll_close(content))

(* -------------------------- ExposingSocket ---------------------------- *)
\* What the inner socket of an ExposingSocket may return to a write of buf:
\* pending, an error, or a count of bytes accepted, possibly short.
Inner_poll_write(buf) ==
    {Pending, ReadyErr} \cup {Ready(k, << >>) : k \in 0..Len(buf)}

\* What it may return to a read into a buffer of buflen bytes.
Inner_poll_read(buflen) ==
    {Pending, ReadyErr} \cup {Ready(Len(b), b) : b \in SeqsUpTo(buflen)}

\* What it may return to a flush or a close.
Inner_poll_unit == {Pending, ReadyErr, ReadyUnit}

\* The bytes the inner socket put on the wire in a write that returned r.
Inner_emitted(buf, r) == IF r.res = "Ok" THEN Take(buf, r.n) ELSE << >>

\* A plausible slip: the whole buffer is logged, not the bytes written.
ExposingSocket_poll_write_whole(w, buf, inner) ==
    IF inner.res # "Ok" THEN [written |-> w, ret |-> inner]
    ELSE [written |-> w \o buf, ret |-> Ready(inner.n, << >>)]

\* A plausible slip: the buffer is logged before the inner socket is asked,
\* so a write that returns Pending or an error is logged as well.
ExposingSocket_poll_write_eager(w, buf, inner) ==
    IF inner.res # "Ok" THEN [written |-> w \o buf, ret |-> inner]
    ELSE [written |-> w \o Take(buf, inner.n), ret |-> Ready(inner.n, << >>)]

\* ExposingSocket::poll_write with the log w, where the inner socket's
\* poll_write returned inner: ready! returns a Pending, ? returns an error,
\* and otherwise buf[..bytes_written] is appended to the log.
ExposingSocket_poll_write(w, buf, inner) ==
    IF inner.poll = "Pending" THEN [written |-> w, ret |-> Pending]
    ELSE IF inner.res = "Err" THEN [written |-> w, ret |-> ReadyErr]
    ELSE LET bytes_written == inner.n
         IN IF bytes_written > Len(buf) THEN [written |-> w, ret |-> Panicked]
            ELSE [written |-> w \o Take(buf, bytes_written),
                  ret |-> Ready(bytes_written, << >>)]

\* ExposingSocket::poll_flush: the inner socket's poll_flush.
ExposingSocket_poll_flush(w, inner) == [written |-> w, ret |-> inner]

\* ExposingSocket::poll_close: the inner socket's poll_close.
ExposingSocket_poll_close(w, inner) == [written |-> w, ret |-> inner]

\* A plausible slip: the bytes read are logged too.
ExposingSocket_poll_read_logged(w, inner) ==
    [written |-> w \o inner.bytes, ret |-> inner]

\* A plausible slip: the read is not forwarded and reports end of stream.
ExposingSocket_poll_read_eof(w, inner) == [written |-> w, ret |-> Ready(0, << >>)]

\* ExposingSocket::poll_read: the inner socket's poll_read.
ExposingSocket_poll_read(w, inner) == [written |-> w, ret |-> inner]

\* The effect of one call on the ExposingSocket's variables; emitted are the
\* bytes the inner socket put on the wire during the call.
ExpoApply(call, inner, emitted, out) ==
    /\ prew' = written
    /\ ecall' = call
    /\ iret' = inner
    /\ eret' = out.ret
    /\ written' = out.written
    /\ wire' = wire \o emitted
    /\ retried' = (/\ call.op = "poll_write" /\ ecall = call
                   /\ iret.poll = "Pending")

(* --------------------------- chunk cutting ---------------------------- *)
\* size_of::<u32>()
SizeOfU32 == 4

\* A slice of n bytes; the predicate reads only lengths, so every byte is 0.
Zeros(n) == [i \in 1..n |-> 0]

\* A plausible slip: >= for >.
should_cut_chunk_ge(c, r, max) ==
    c # << >> /\ Len(c) + Len(r) + SizeOfU32 >= max

\* A plausible slip: the emptiness test is left out.
should_cut_chunk_noempty(c, r, max) ==
    Len(c) + Len(r) + SizeOfU32 > max

\* A plausible slip: the length prefix of the record is not counted.
should_cut_chunk_noprefix(c, r, max) ==
    c # << >> /\ Len(c) + Len(r) > max

\* should_cut_chunk(chunk, record, max_chunk_size)
should_cut_chunk(c, r, max) ==
    c # << >> /\ Len(c) + Len(r) + SizeOfU32 > max

NotCalled == [called |-> FALSE, value |-> FALSE]
Returned(v) == [called |-> TRUE, value |-> v]

(* ------------------------ keys and messages --------------------------- *)
\* Keys, tags and session material are single values in Byte; message 1 is
\* <<e, s, timestamp, tag>> and message 2 is <<e, tag>>.

\* libra_crypto::test_utils::TEST_SEED
TEST_SEED == 0

\* x25519::PrivateKey::generate(&mut rng), for an rng in the state seed.
PrivateKey_generate(seed) == (seed + 1) % Modulus

\* x25519::PrivateKey::public_key
PrivateKey_public_key(private) == (private + 1) % Modulus

\* A Diffie-Hellman exchange: dh(a, public(b)) = dh(b, public(a)).
DiffieHellman(private, public) ==
    (private * ((public + Modulus - 1) % Modulus)) % Modulus

\* The closure of the Lazy: the key pair made from TEST_SEED.
KEYPAIR_init ==
    LET private_key == PrivateKey_generate(TEST_SEED)
    IN [private |-> private_key, public |-> PrivateKey_public_key(private_key)]

\* Dereferencing KEYPAIR: the closure runs on the first access only.
Lazy_force(cell) ==
    IF cell.forced THEN cell
    ELSE [forced |-> TRUE, times |-> cell.times + 1, value |-> KEYPAIR_init]

\* A plausible slip: a cell without synchronisation, where every thread
\* that finds the cell empty runs the closure.
Lazy_enter_unsync(cell, busy) == IF cell.forced THEN "read" ELSE "init"

\* What a thread dereferencing KEYPAIR does: read the value, run the
\* closure, or wait while another thread runs it.
Lazy_enter(cell, busy) ==
    IF cell.forced THEN "read" ELSE IF busy THEN "wait" ELSE "init"

\* The closure has run: the cell holds its value.
Lazy_set(cell) ==
    [forced |-> TRUE, times |-> cell.times + 1, value |-> KEYPAIR_init]

LazyNew == [forced |-> FALSE, times |-> 0, value |-> [private |-> 0, public |-> 0]]

\* PeerId::from_identity_public_key
PeerId_from_identity_public_key(public) == Modulus + public

PeerIds == {PeerId_from_identity_public_key(b) : b \in Byte}

\* A plausible slip: the wall clock, which differs from call to call.
fake_timestamp_clock == run % Modulus

\* fake_timestamp(): the same timestamp every time, all zeroes.
fake_timestamp == 0

RECURSIVE SumSeq(_)
SumSeq(s) == IF s = << >> THEN 0 ELSE s[1] + SumSeq(Tail(s))

Message1Fields == <<"e", "s", "timestamp", "tag">>
Message2Fields == <<"e", "tag">>
Msg1Len == Len(Message1Fields)
Msg2Len == Len(Message2Fields)

\* The authentication tag of message 1.
Tag1(e_pub, s_pub, ts, k_es, k_ss) ==
    (1 + e_pub + s_pub + ts + k_es + k_ss) % Modulus

\* The authentication tag of message 2, over the transcript so far.
Tag2(transcript, k_ee, k_se) ==
    (1 + SumSeq(transcript) + k_ee + k_se) % Modulus

\* Message 1 of an initiator with key pair kp and ephemeral key e.
Message1(e, kp, remote_public, ts) ==
    LET e_pub == PrivateKey_public_key(e)
        k_es == DiffieHellman(e, remote_public)
        k_ss == DiffieHellman(kp.private, remote_public)
    IN <<e_pub, (kp.public + k_es) % Modulus, ts,
         Tag1(e_pub, kp.public, ts, k_es, k_ss)>>

\* The messages 1 valid for the upgrader built with KEYPAIR: those some
\* initiator, with any static and ephemeral key and any timestamp, builds
\* for the public key of KEYPAIR.
ValidInbound ==
    {Message1(e, [private |-> s, public |-> PrivateKey_public_key(s)],
              KEYPAIR_init.public, ts) :
        e \in Byte, s \in Byte, ts \in Byte}

\* Message 2 of a responder with ephemeral key e, answering message m1 of
\* an initiator with static key s_pub.
Message2(e, m1, s_pub) ==
    LET e_pub == PrivateKey_public_key(e)
        k_ee == DiffieHellman(e, m1[1])
        k_se == DiffieHellman(e, s_pub)
    IN <<e_pub, Tag2(Append(m1, e_pub), k_ee, k_se)>>

\* The identity a message 1 claims, as its receiver with key pair kp sees it.
Message1_peer(m1, kp) ==
    LET k_es == DiffieHellman(kp.private, m1[1])
    IN PeerId_from_identity_public_key((m1[2] + Modulus - k_es) % Modulus)

\* The session material: the transcript and the chained key.
Session(transcript, k_es, k_ss, k_ee, k_se) ==
    [h |-> transcript, ck |-> (k_es + k_ss + k_ee + k_se) % Modulus]
NoSession == [h |-> << >>, ck |-> 0]

\* ReplayWindowState: the last accepted timestamp of each peer, -1 for none.
ReplayNew == [p \in PeerIds |-> -1]

\* A plausible slip: a timestamp equal to the last accepted one passes.
AntiReplay_validate_geq(candidate, last_seen) == candidate >= last_seen

\* validate(candidate, last_seen_for_peer)
AntiReplay_validate(candidate, last_seen) == candidate > last_seen

(* ---------------------------- upgrades -------------------------------- *)
Roles == {"initiator", "responder"}
ErrorKinds == {"Malformed", "AuthenticationFailure", "ReplayDetected",
               "UnexpectedPeer", "TransportFailure"}

\* An upgrade future: its state, its ephemeral key, the message it sent, the
\* bytes still to write, the bytes read so far and, once Done, its result.
TaskNew ==
    [pc |-> "Start", e |-> 0, sent |-> << >>, out |-> << >>, buf |-> << >>,
     result |-> "none", session |-> NoSession, peer |-> 0]
TaskUnused == [TaskNew EXCEPT !.pc = "Unused"]

\* A terminal failure: an error and no Session.
Failed(t, kind) ==
    [t EXCEPT !.pc = "Done", !.result = kind, !.session = NoSession, !.out = << >>]

\* The length of the message a role waits for.
Need(role) == IF role = "initiator" THEN Msg2Len ELSE Msg1Len

\* The socket call an upgrade makes next.
TaskCall(t, role) ==
    CASE t.pc = "Writing" -> Call("poll_write", Len(t.out), t.out)
      [] t.pc = "Flushing" -> Call("poll_flush", 0, << >>)
      [] t.pc = "AwaitingPeerMessage" -> Call("poll_read", Need(role) - Len(t.buf), << >>)
      [] OTHER -> NoCall

\* upgrade_outbound, up to its first write: message 1 with a new ephemeral
\* key and the provider's timestamp.
Outbound_start(t, e, kp, remote_public, ts) ==
    LET m1 == Message1(e, kp, remote_public, ts)
    IN [t EXCEPT !.pc = "Writing", !.e = e, !.sent = m1, !.out = m1]

\* upgrade_inbound, up to its first read.
Inbound_start(t) == [t EXCEPT !.pc = "AwaitingPeerMessage"]

\* One poll_write of the message being sent returned ret.
Upgrade_write(t, ret) ==
    IF ret.poll = "Pending" THEN t
    ELSE IF ret.poll = "Panic" THEN Failed(t, "Panic")
    ELSE IF ret.res = "Err" \/ ret.n = 0 THEN Failed(t, "TransportFailure")
    ELSE LET rest == Drop(t.out, ret.n)
         IN [t EXCEPT !.out = rest,
                      !.pc = IF rest = << >> THEN "Flushing" ELSE "Writing"]

\* poll_flush returned ret: the initiator goes on to await message 2, the
\* responder is done and returns its Session.
Upgrade_flush(t, role, ret) ==
    IF ret.poll = "Pending" THEN t
    ELSE IF ret.poll = "Panic" THEN Failed(t, "Panic")
    ELSE IF ret.res = "Err" THEN Failed(t, "TransportFailure")
    ELSE IF role = "initiator" THEN [t EXCEPT !.pc = "AwaitingPeerMessage"]
    ELSE [t EXCEPT !.pc = "Done", !.result = "Established"]

\* One poll_read for the rest of the awaited message returned ret: bytes
\* are buffered; end of stream before the message is complete is Malformed.
Upgrade_read(t, role, ret) ==
    IF ret.poll = "Pending" THEN t
    ELSE IF ret.poll = "Panic" THEN Failed(t, "Panic")
    ELSE IF ret.res = "Err" THEN Failed(t, "TransportFailure")
    ELSE IF ret.n = 0 THEN Failed(t, "Malformed")
    ELSE LET got == t.buf \o ret.bytes
         IN [t EXCEPT !.buf = got,
                      !.pc = IF Len(got) = Need(role) THEN "Validating"
                             ELSE "AwaitingPeerMessage"]

\* upgrade_outbound, message 2 read: its tag is verified against the
\* transcript and the expected responder key.
Outbound_validate(t, kp, remote_public) ==
    LET m2 == t.buf
        k_es == DiffieHellman(t.e, remote_public)
        k_ss == DiffieHellman(kp.private, remote_public)
        k_ee == DiffieHellman(t.e, m2[1])
        k_se == DiffieHellman(kp.private, m2[1])
    IN IF m2[2] # Tag2(Append(t.sent, m2[1]), k_ee, k_se)
       THEN Failed(t, "AuthenticationFailure")
       ELSE [t EXCEPT !.pc = "Done", !.result = "Established",
                      !.session = Session(t.sent \o m2, k_es, k_ss, k_ee, k_se),
                      !.peer = PeerId_from_identity_public_key(remote_public)]

\* A plausible slip: an accepted timestamp is not stored in the window.
Inbound_validate_nocommit(t, e, kp, auth_mode, trusted, rw) ==
    LET m1 == t.buf
        k_es == DiffieHellman(kp.private, m1[1])
        s_pub == (m1[2] + Modulus - k_es) % Modulus
        ts == m1[3]
        k_ss == DiffieHellman(kp.private, s_pub)
        peer == PeerId_from_identity_public_key(s_pub)
        m2 == Message2(e, m1, s_pub)
    IN IF m1[4] # Tag1(m1[1], s_pub, ts, k_es, k_ss)
       THEN [task |-> Failed(t, "AuthenticationFailure"), replay |-> rw]
       ELSE IF ~AntiReplay_validate(ts, rw[peer])
       THEN [task |-> Failed(t, "ReplayDetected"), replay |-> rw]
       ELSE [task |-> [t EXCEPT !.pc = "Writing", !.e = e, !.sent = m2, !.out = m2,
                                !.session = Session(m1 \o m2, k_es, k_ss,
                                                    DiffieHellman(e, m1[1]),
                                                    DiffieHellman(e, s_pub)),
                                !.peer = peer],
             replay |-> rw]

\* upgrade_inbound, message 1 read: tag, then timestamp against the replay
\* window rw, then the identity policy; on success the window is updated
\* and message 2, with a new ephemeral key e, is to be written.
Inbound_validate(t, e, kp, auth_mode, trusted, rw) ==
    LET m1 == t.buf
        k_es == DiffieHellman(kp.private, m1[1])
        s_pub == (m1[2] + Modulus - k_es) % Modulus
        ts == m1[3]
        k_ss == DiffieHellman(kp.private, s_pub)
        peer == PeerId_from_identity_public_key(s_pub)
        m2 == Message2(e, m1, s_pub)
    IN IF m1[4] # Tag1(m1[1], s_pub, ts, k_es, k_ss)
       THEN [task |-> Failed(t, "AuthenticationFailure"), replay |-> rw]
       ELSE IF ~AntiReplay_validate(ts, rw[peer])
       THEN [task |-> Failed(t, "ReplayDetected"), replay |-> rw]
       ELSE IF auth_mode = "Mutual" /\ peer \notin trusted
       THEN [task |-> Failed(t, "UnexpectedPeer"), replay |-> rw]
       ELSE [task |-> [t EXCEPT !.pc = "Writing", !.e = e, !.sent = m2, !.out = m2,
                                !.session = Session(m1 \o m2, k_es, k_ss,
                                                    DiffieHellman(e, m1[1]),
                                                    DiffieHellman(e, s_pub)),
                                !.peer = peer],
             replay |-> [rw EXCEPT ![peer] = ts]]

\* HandshakeAuthMode::ServerOnly, the mode of every upgrader built here.
AuthMode == "ServerOnly"

(* ------------------------ MemorySocket pair --------------------------- *)
\* The two ends of MemorySocket::new_pair(): what one end writes is queued
\* in the inbox of the other.  A write is never held back; it may be short.
SideOf(role) == IF role = "initiator" THEN "dialer" ELSE "listener"
Peer(side) == IF side = "dialer" THEN "listener" ELSE "dialer"

\* What poll_write(buf) may return; an end whose peer was dropped fails.
MemorySocket_poll_write(peer_dropped, buf) ==
    IF peer_dropped THEN {ReadyErr}
    ELSE IF buf = << >> THEN {Ready(0, << >>)}
    ELSE {Ready(k, << >>) : k \in 1..Len(buf)}

\* What poll_read into buflen bytes may return: queued bytes, possibly
\* fewer than asked for; end of stream once the peer was dropped and the
\* queue is empty; Pending otherwise (the next write of the peer wakes it).
MemorySocket_poll_read(inbox, peer_dropped, buflen) ==
    IF buflen = 0 THEN {Ready(0, << >>)}
    ELSE IF inbox # << >>
    THEN {Ready(k, Take(inbox, k)) : k \in 1..Min(buflen, Len(inbox))}
    ELSE IF peer_dropped THEN {Ready(0, << >>)}
    ELSE {Pending}

\* What poll_flush may return.
MemorySocket_poll_flush == {ReadyUnit}

(* ------------------------ construction states ------------------------- *)
\* FakeSocket { content: data }
FakeNew(data) ==
    /\ content = data
    /\ original = data
    /\ delivered = << >>
    /\ pre = data
    /\ fcall = NoCall
    /\ fret = NoRet

\* ExposingSocket::new(memory_socket)
ExpoNew ==
    /\ written = << >>
    /\ wire = << >>
    /\ prew = << >>
    /\ ecall = NoCall
    /\ iret = NoRet
    /\ eret = NoRet
    /\ retried = FALSE

\* Nothing is being chunked.
ChunkIdle ==
    /\ chunk = << >>
    /\ record = << >>
    /\ max_chunk_size = 0
    /\ cut = NotCalled
    /\ in_chunk = 0
    /\ chunks = << >>

\* A process that has not touched KEYPAIR and runs no upgrade.
UpgIdle ==
    /\ keypair = LazyNew
    /\ task = [r \in Roles |-> TaskUnused]
    /\ replay = ReplayNew

\* No fuzz entry point was called.
FuzzIdle ==
    /\ fpc = "idle"
    /\ frole = "none"
    /\ fdata = << >>

SocketNew == [written |-> << >>, inbox |-> << >>, dropped |-> FALSE]
Sides == {"dialer", "listener"}

\* generate_first_two_messages was not called.
GenIdle ==
    /\ gpc = "idle"
    /\ run = 0
    /\ sockets = [s \in Sides |-> SocketNew]
    /\ outs = << >>
    /\ stamps = << >>
    /\ corpus = << >>


\* The two handshake attempts made with one upgrader.
Attempts == {"a1", "a2"}
AttemptNew ==
    [role |-> "none", data |-> << >>, content |-> << >>, task |-> TaskUnused,
     validated |-> FALSE, last_seen |-> << >>]

\* No connection was handed to an upgrader.
ServeIdle == attempts = [a \in Attempts |-> AttemptNew]

\* The two threads of the process that call the entry points.
Threads == {"t1", "t2"}

\* No thread has called an entry point.
KeysIdle ==
    threads = [t \in Threads |->
                 [pc |-> "idle", fn |-> "none", calls |-> 0, seen |-> << >>,
                  blocked |-> FALSE]]
(* SpecFake: a FakeSocket over any data, under any sequence of calls. *)
InitFake ==
    /\ \E data \in Datas : FakeNew(data)
    /\ ExpoNew /\ ChunkIdle /\ UpgIdle /\ FuzzIdle /\ GenIdle
    /\ ServeIdle /\ KeysIdle

notFake == <<expoVars, chunkVars, upgVars, fuzzVars, genVars,
            serveVars, keysVars>>

FakeReadAny == (\E buflen \in 0..MaxBuf : FakeRead(buflen)) /\ UNCHANGED notFake
FakeWriteAny == (\E buf \in Bufs : FakeWrite(buf)) /\ UNCHANGED notFake
FakeFlushAny == FakeFlush /\ UNCHANGED notFake
FakeCloseAny == FakeClose /\ UNCHANGED notFake

NextFake == FakeReadAny \/ FakeWriteAny \/ FakeFlushAny \/ FakeCloseAny

SpecFake == InitFake /\ [][NextFake]_vars

\* C2: a read with a buffer of N bytes returns exactly min(N, remaining)
\* bytes, they are the next unread bytes in order, the cursor advances by
\* that count, and what was delivered followed by what is unread is always
\* the original data.
C2_ReadNextBytes ==
    /\ delivered \o content = original
    /\ fcall.op = "poll_read" =>
          LET k == Min(fcall.n, Len(pre))
          IN /\ fret = Ready(k, Take(pre, k))
             /\ content = Drop(pre, k)

\* A second read, of fewer bytes than were left.
C2_Witness ==
    /\ fcall.op = "poll_read"
    /\ 0 < fret.n /\ fret.n < Len(pre)
    /\ Len(delivered) > fret.n

\* C3: once the data is exhausted it stays exhausted under every call, and
\* every read then returns Ready(Ok(0)), whatever the buffer size.
C3_EndOfStream ==
    (fcall.op # "none" /\ pre = << >>) =>
        /\ content = << >>
        /\ fcall.op = "poll_read" => fret = Ready(0, << >>)

\* A read with a non-empty buffer on a socket whose data was read to its end.
C3_Witness ==
    /\ original # << >>
    /\ pre = << >>
    /\ fcall.op = "poll_read" /\ fcall.n > 0
    /\ fret = Ready(0, << >>)

\* C4: a write of L bytes returns Ready(Ok(L)), flush and close return
\* Ready(Ok(())), and none of them changes the unread content.
C4_WriteFlushClose ==
    /\ fcall.op = "poll_write" =>
          /\ fret = Ready(Len(fcall.buf), << >>)
          /\ content = pre
    /\ fcall.op \in {"poll_flush", "poll_close"} =>
          /\ fret = ReadyUnit
          /\ content = pre

\* A non-empty write between reads, with data still unread.
C4_Witness ==
    /\ fcall.op = "poll_write" /\ Len(fcall.buf) > 0
    /\ delivered # << >>
    /\ content # << >>

(* SpecExpo: an ExposingSocket whose inner socket answers in any way, under
   any sequence of calls; the log is capped at MaxData bytes. *)
InitExpo ==
    /\ ExpoNew
    /\ FakeNew(<< >>) /\ ChunkIdle /\ UpgIdle /\ FuzzIdle /\ GenIdle
    /\ ServeIdle /\ KeysIdle

notExpo == <<fakeVars, chunkVars, upgVars, fuzzVars, genVars,
            serveVars, keysVars>>

ExpoWrite ==
    \E buf \in Bufs : \E inner \in Inner_poll_write(buf) :
        /\ Len(written) + Len(buf) <= MaxData
        /\ ExpoApply(Call("poll_write", Len(buf), buf), inner,
                     Inner_emitted(buf, inner),
                     ExposingSocket_poll_write(written, buf, inner))
        /\ UNCHANGED notExpo

ExpoRead ==
    \E buflen \in 0..MaxBuf : \E inner \in Inner_poll_read(buflen) :
        /\ ExpoApply(Call("poll_read", buflen, << >>), inner, << >>,
                     ExposingSocket_poll_read(written, inner))
        /\ UNCHANGED notExpo

ExpoFlush ==
    \E inner \in Inner_poll_unit :
        /\ ExpoApply(Call("poll_flush", 0, << >>), inner, << >>,
                     ExposingSocket_poll_flush(written, inner))
        /\ UNCHANGED notExpo

ExpoClose ==
    \E inner \in Inner_poll_unit :
        /\ ExpoApply(Call("poll_close", 0, << >>), inner, << >>,
                     ExposingSocket_poll_close(written, inner))
        /\ UNCHANGED notExpo

NextExpo == ExpoWrite \/ ExpoRead \/ ExpoFlush \/ ExpoClose

SpecExpo == InitExpo /\ [][NextExpo]_vars

\* C1: the capture log is always exactly the bytes the inner socket
\* accepted, in order; a write that reported k bytes appended buf[..k] and
\* nothing else, and no call alters or removes bytes already logged.
C1_LogIsWire ==
    /\ written = wire
    /\ Len(prew) <= Len(written) /\ Take(written, Len(prew)) = prew
    /\ (ecall.op = "poll_write" /\ iret.res = "Ok") =>
          written = prew \o Take(ecall.buf, iret.n)

\* A partial write onto a log that already holds bytes.
C1_Witness ==
    /\ ecall.op = "poll_write" /\ iret.res = "Ok"
    /\ 0 < iret.n /\ iret.n < Len(ecall.buf)
    /\ prew # << >>
    /\ written = prew \o Take(ecall.buf, iret.n)

\* C5: read, flush and close return what the inner socket returned to the
\* same call and leave the capture log unchanged.
C5_Delegates ==
    ecall.op \in {"poll_read", "poll_flush", "poll_close"} =>
        /\ eret = iret
        /\ written = prew

\* A read that returned bytes, on a socket whose log is not empty.
C5_Witness ==
    /\ ecall.op = "poll_read" /\ eret.res = "Ok" /\ eret.n > 0
    /\ eret = iret
    /\ written # << >>


\* C19: a write for which the inner socket returned Pending or an error
\* returns the same and logs nothing; the bytes of a write repeated after
\* Pending are in the log once.
C19_IncompleteWriteNotLogged ==
    /\ (ecall.op = "poll_write" /\ (iret.poll = "Pending" \/ iret.res = "Err")) =>
          /\ eret = iret
          /\ written = prew
    /\ (retried /\ iret.res = "Ok") =>
          /\ written = prew \o Take(ecall.buf, iret.n)
          /\ written = wire

\* A write of two bytes returned Pending and, repeated, was accepted in
\* full: the log ends with the two bytes, once.
C19_Witness ==
    /\ retried /\ ecall.op = "poll_write"
    /\ iret = Ready(2, << >>) /\ Len(ecall.buf) = 2
    /\ prew # << >>
    /\ written = prew \o ecall.buf
    /\ written = wire
(* SpecCut: should_cut_chunk applied once to any chunk, record and size. *)
InitCut ==
    /\ chunk \in {Zeros(n) : n \in 0..MaxChunkLen}
    /\ record \in {Zeros(n) : n \in 0..MaxRecordLen}
    /\ max_chunk_size \in 0..MaxChunkSize
    /\ cut = NotCalled
    /\ in_chunk = 0
    /\ chunks = << >>
    /\ FakeNew(<< >>) /\ ExpoNew /\ UpgIdle /\ FuzzIdle /\ GenIdle
    /\ ServeIdle /\ KeysIdle

notChunk == <<fakeVars, expoVars, upgVars, fuzzVars, genVars,
            serveVars, keysVars>>

CutApply ==
    /\ ~cut.called
    /\ cut' = Returned(should_cut_chunk(chunk, record, max_chunk_size))
    /\ UNCHANGED <<chunk, record, max_chunk_size, in_chunk, chunks>>
    /\ UNCHANGED notChunk

NextCut == CutApply

SpecCut == InitCut /\ [][NextCut]_vars

\* C6: should_cut_chunk returns true exactly when the chunk is not empty
\* and len(chunk) + len(record) + 4 > max_chunk_size.
C6_CutIff ==
    cut.called =>
        (cut.value = TRUE <=>
            (Len(chunk) >= 1 /\ Len(chunk) + Len(record) + 4 >= max_chunk_size + 1))

\* The boundary: a non-empty chunk with len(chunk) + len(record) + 4 equal to
\* max_chunk_size is not cut.
C6_Witness ==
    /\ cut.called /\ cut.value = FALSE
    /\ Len(chunk) >= 1
    /\ Len(chunk) + Len(record) + 4 = max_chunk_size

(* SpecChunk: a chunk writer.  It starts with an empty chunk; for each
   record it closes the chunk and starts an empty one when should_cut_chunk
   says so, then appends the record behind its u32 length. *)
InitChunk ==
    /\ chunk = << >>
    /\ record = << >>
    /\ max_chunk_size \in 0..MaxChunkSize
    /\ cut = NotCalled
    /\ in_chunk = 0
    /\ chunks = << >>
    /\ FakeNew(<< >>) /\ ExpoNew /\ UpgIdle /\ FuzzIdle /\ GenIdle
    /\ ServeIdle /\ KeysIdle

ChunkWriteRecord ==
    \E r \in {Zeros(n) : n \in 0..MaxRecordLen} :
        LET c == should_cut_chunk(chunk, r, max_chunk_size)
            start == IF c THEN << >> ELSE chunk
        IN /\ Len(chunks) + in_chunk < MaxRecords
           /\ record' = r
           /\ cut' = Returned(c)
           /\ chunks' = IF c THEN Append(chunks, [records |-> in_chunk, bytes |-> Len(chunk)])
                               ELSE chunks
           /\ chunk' = start \o Zeros(SizeOfU32) \o r
           /\ in_chunk' = IF c THEN 1 ELSE in_chunk + 1
           /\ UNCHANGED max_chunk_size
           /\ UNCHANGED notChunk

NextChunk == ChunkWriteRecord

SpecChunk == InitChunk /\ [][NextChunk]_vars

\* C7: every chunk the writer closes holds at least one record.
C7_NoEmptyChunk ==
    \A i \in 1..Len(chunks) : chunks[i].records >= 1

\* Two chunks were closed, and one of them holds a single record that alone
\* is larger than max_chunk_size.
C7_Witness ==
    /\ Len(chunks) >= 2
    /\ \E i \in 1..Len(chunks) :
          chunks[i].records = 1 /\ chunks[i].bytes > max_chunk_size


\* C20: every chunk that holds two or more records, closed or being
\* filled, is at most max_chunk_size bytes; a chunk larger than that holds
\* exactly one record.
C20_ChunkSizeBound ==
    /\ \A i \in 1..Len(chunks) :
         /\ chunks[i].records >= 2 => chunks[i].bytes <= max_chunk_size
         /\ chunks[i].bytes > max_chunk_size => chunks[i].records = 1
    /\ in_chunk >= 2 => Len(chunk) <= max_chunk_size
    /\ Len(chunk) > max_chunk_size => in_chunk = 1

\* A chunk of two records that is exactly max_chunk_size bytes was closed,
\* because a third record did not fit, and the next chunk is being filled.
C20_Witness ==
    /\ \E i \in 1..Len(chunks) :
          chunks[i].records = 2 /\ chunks[i].bytes = max_chunk_size
    /\ in_chunk >= 2 /\ Len(chunk) < max_chunk_size
(* SpecFuzz: one call of fuzz_initiator(data) or fuzz_responder(data), for
   any data up to a little more than a message 1; each socket call of the
   upgrade is one step. *)
FuzzDatas == SeqsUpTo(Msg1Len + MaxSurplus)

InitFuzz ==
    /\ fpc = "entry"
    /\ frole \in Roles
    /\ fdata \in FuzzDatas
    /\ FakeNew(<< >>) /\ ExpoNew /\ ChunkIdle /\ UpgIdle /\ GenIdle
    /\ ServeIdle /\ KeysIdle

notFuzz == <<expoVars, chunkVars, genVars,
            serveVars, keysVars>>

\* KEYPAIR.clone(), NoiseUpgrader::new(.., ServerOnly), FakeSocket { content: data }
FuzzSetup ==
    /\ fpc = "entry"
    /\ keypair' = Lazy_force(keypair)
    /\ replay' = ReplayNew
    /\ task' = [task EXCEPT ![frole] = TaskNew]
    /\ content' = fdata
    /\ original' = fdata
    /\ delivered' = << >>
    /\ pre' = fdata
    /\ fcall' = NoCall
    /\ fret' = NoRet
    /\ fpc' = "block_on"
    /\ UNCHANGED <<frole, fdata>>
    /\ UNCHANGED notFuzz

\* upgrade_outbound(fake_socket, public_key, fake_timestamp) builds message 1.
FuzzStartOutbound ==
    /\ fpc = "block_on" /\ frole = "initiator" /\ task[frole].pc = "Start"
    /\ \E e \in Byte :
         task' = [task EXCEPT ![frole] =
                    Outbound_start(@, e, keypair.value, keypair.value.public,
                                   fake_timestamp)]
    /\ UNCHANGED <<keypair, replay, fakeVars, fuzzVars>>
    /\ UNCHANGED notFuzz

\* upgrade_inbound(fake_socket) starts to read.
FuzzStartInbound ==
    /\ fpc = "block_on" /\ frole = "responder" /\ task[frole].pc = "Start"
    /\ task' = [task EXCEPT ![frole] = Inbound_start(@)]
    /\ UNCHANGED <<keypair, replay, fakeVars, fuzzVars>>
    /\ UNCHANGED notFuzz

FuzzWrite ==
    /\ fpc = "block_on" /\ task[frole].pc = "Writing"
    /\ FakeWrite(task[frole].out)
    /\ task' = [task EXCEPT ![frole] = Upgrade_write(@, fret')]
    /\ UNCHANGED <<keypair, replay, fuzzVars>>
    /\ UNCHANGED notFuzz

FuzzFlush ==
    /\ fpc = "block_on" /\ task[frole].pc = "Flushing"
    /\ FakeFlush
    /\ task' = [task EXCEPT ![frole] = Upgrade_flush(@, frole, fret')]
    /\ UNCHANGED <<keypair, replay, fuzzVars>>
    /\ UNCHANGED notFuzz

FuzzRead ==
    /\ fpc = "block_on" /\ task[frole].pc = "AwaitingPeerMessage"
    /\ FakeRead(TaskCall(task[frole], frole).n)
    /\ task' = [task EXCEPT ![frole] = Upgrade_read(@, frole, fret')]
    /\ UNCHANGED <<keypair, replay, fuzzVars>>
    /\ UNCHANGED notFuzz

FuzzValidateOutbound ==
    /\ fpc = "block_on" /\ frole = "initiator" /\ task[frole].pc = "Validating"
    /\ task' = [task EXCEPT ![frole] =
                  Outbound_validate(@, keypair.value, keypair.value.public)]
    /\ UNCHANGED <<keypair, replay, fakeVars, fuzzVars>>
    /\ UNCHANGED notFuzz

FuzzValidateInbound ==
    /\ fpc = "block_on" /\ frole = "responder" /\ task[frole].pc = "Validating"
    /\ \E e \in Byte :
         LET v == Inbound_validate(task[frole], e, keypair.value, AuthMode, {}, replay)
         IN /\ task' = [task EXCEPT ![frole] = v.task]
            /\ replay' = v.replay
    /\ UNCHANGED <<keypair, fakeVars, fuzzVars>>
    /\ UNCHANGED notFuzz

\* let _ = block_on(..): the result is dropped; a panic is not caught.
FuzzReturn ==
    /\ fpc = "block_on" /\ task[frole].pc = "Done"
    /\ fpc' = IF task[frole].result = "Panic" THEN "crashed" ELSE "returned"
    /\ UNCHANGED <<frole, fdata, upgVars, fakeVars>>
    /\ UNCHANGED notFuzz

NextFuzz ==
    \/ FuzzSetup
    \/ FuzzStartOutbound
    \/ FuzzStartInbound
    \/ FuzzWrite
    \/ FuzzFlush
    \/ FuzzRead
    \/ FuzzValidateOutbound
    \/ FuzzValidateInbound
    \/ FuzzReturn

SpecFuzz == InitFuzz /\ [][NextFuzz]_vars

\* block_on keeps polling the future while it can make a step.
SpecFuzzFair == SpecFuzz /\ WF_vars(NextFuzz)

\* C8: for every data, fuzz_initiator and fuzz_responder return: they never
\* panic, and the upgrade ends in success or in one of the error kinds.
C8_FuzzReturns ==
    /\ <>(fpc = "returned")
    /\ [](fpc # "crashed")
    /\ [](fpc = "returned" =>
            task[frole].result \in ErrorKinds \cup {"Established"})

\* fuzz_responder on a single byte has returned: the upgrade read the byte,
\* then a zero-length read ended it as Malformed.
C8_Witness ==
    /\ fpc = "returned" /\ frole = "responder"
    /\ Len(fdata) = 1
    /\ fcall.op = "poll_read" /\ fret = Ready(0, << >>)
    /\ task[frole].result = "Malformed"

\* d is a proper prefix of a valid message 1.
Truncated(d) ==
    \E m \in ValidInbound : Len(d) < Len(m) /\ d = Take(m, Len(d))

\* C11: fuzz_responder on a proper prefix of a valid message 1 returns; the
\* upgrade never panics, never writes message 2, and ends as Malformed with
\* no Session.
C11_TruncatedIsMalformed ==
    /\ [](fpc = "block_on" /\ frole = "responder" /\ Truncated(fdata) =>
            /\ task[frole].sent = << >>
            /\ fcall.op # "poll_write"
            /\ task[frole].session = NoSession
            /\ task[frole].pc = "Done" => task[frole].result = "Malformed")
    /\ [](frole = "responder" /\ Truncated(fdata) => fpc # "crashed")
    /\ (frole = "responder" /\ Truncated(fdata)) ~> (fpc = "returned")

\* fuzz_responder on the first three bytes of a valid message 1 has
\* returned, the upgrade being Malformed.
C11_Witness ==
    /\ fpc = "returned" /\ frole = "responder"
    /\ Len(fdata) = 3 /\ Truncated(fdata)
    /\ delivered = fdata
    /\ task[frole].result = "Malformed"
    /\ task[frole].session = NoSession

(* SpecGen: NumRuns calls of generate_corpus in one process, each calling
   generate_first_two_messages. In each, the two upgrades are polled in any
   order; each socket call of an upgrade is one step. *)
InitGen ==
    /\ gpc = "build"
    /\ run = 1
    /\ sockets = [s \in Sides |-> SocketNew]
    /\ outs = << >>
    /\ stamps = << >>
    /\ corpus = << >>
    /\ FakeNew(<< >>) /\ ExpoNew /\ ChunkIdle /\ UpgIdle /\ FuzzIdle
    /\ ServeIdle /\ KeysIdle

notGen == <<fakeVars, expoVars, chunkVars, fuzzVars,
            serveVars, keysVars>>

\* An upgrade that ended in an error has dropped its socket.
Ended(t) == t.pc = "Done" /\ t.result # "Established"

\* KEYPAIR.clone(), the two NoiseUpgrader::new and ExposingSocket::new_pair().
GenBuild ==
    /\ gpc = "build"
    /\ keypair' = Lazy_force(keypair)
    /\ replay' = ReplayNew
    /\ task' = [r \in Roles |-> TaskNew]
    /\ sockets' = [s \in Sides |-> SocketNew]
    /\ gpc' = "block_on"
    /\ UNCHANGED <<run, outs, stamps, corpus>>
    /\ UNCHANGED notGen

\* initiator.upgrade_outbound(dialer_socket, public_key, fake_timestamp)
GenStartOutbound(role) ==
    /\ gpc = "block_on"
    /\ UNCHANGED notGen
    /\ role = "initiator" /\ task[role].pc = "Start"
    /\ LET ts == fake_timestamp
       IN /\ stamps' = Append(stamps, ts)
          /\ \E e \in Byte :
               task' = [task EXCEPT ![role] =
                          Outbound_start(@, e, keypair.value, keypair.value.public, ts)]
    /\ UNCHANGED <<keypair, replay, gpc, run, sockets, outs, corpus>>

\* responder.upgrade_inbound(listener_socket)
GenStartInbound(role) ==
    /\ gpc = "block_on"
    /\ UNCHANGED notGen
    /\ role = "responder" /\ task[role].pc = "Start"
    /\ task' = [task EXCEPT ![role] = Inbound_start(@)]
    /\ UNCHANGED <<keypair, replay, genVars>>

GenWrite(role) ==
    LET side == SideOf(role)
        t == task[role]
    IN /\ gpc = "block_on"
       /\ UNCHANGED notGen
       /\ t.pc = "Writing"
       /\ \E inner \in MemorySocket_poll_write(sockets[Peer(side)].dropped, t.out) :
            LET out == ExposingSocket_poll_write(sockets[side].written, t.out, inner)
                nt == Upgrade_write(t, out.ret)
            IN /\ task' = [task EXCEPT ![role] = nt]
               /\ sockets' = [sockets EXCEPT
                                ![side].written = out.written,
                                ![side].dropped = Ended(nt),
                                ![Peer(side)].inbox = @ \o Inner_emitted(t.out, inner)]
       /\ UNCHANGED <<keypair, replay, gpc, run, outs, stamps, corpus>>

GenFlush(role) ==
    LET side == SideOf(role)
        t == task[role]
    IN /\ gpc = "block_on"
       /\ UNCHANGED notGen
       /\ t.pc = "Flushing"
       /\ \E inner \in MemorySocket_poll_flush :
            LET out == ExposingSocket_poll_flush(sockets[side].written, inner)
                nt == Upgrade_flush(t, role, out.ret)
            IN /\ task' = [task EXCEPT ![role] = nt]
               /\ sockets' = [sockets EXCEPT
                                ![side].written = out.written,
                                ![side].dropped = Ended(nt)]
       /\ UNCHANGED <<keypair, replay, gpc, run, outs, stamps, corpus>>

GenRead(role) ==
    LET side == SideOf(role)
        t == task[role]
    IN /\ gpc = "block_on"
       /\ UNCHANGED notGen
       /\ t.pc = "AwaitingPeerMessage"
       /\ \E inner \in MemorySocket_poll_read(sockets[side].inbox,
                                              sockets[Peer(side)].dropped,
                                              TaskCall(t, role).n) :
            LET out == ExposingSocket_poll_read(sockets[side].written, inner)
                nt == Upgrade_read(t, role, out.ret)
            IN /\ task' = [task EXCEPT ![role] = nt]
               /\ sockets' = [sockets EXCEPT
                                ![side].written = out.written,
                                ![side].dropped = Ended(nt),
                                ![side].inbox = Drop(@, inner.n)]
       /\ UNCHANGED <<keypair, replay, gpc, run, outs, stamps, corpus>>

GenValidateOutbound(role) ==
    /\ gpc = "block_on"
    /\ UNCHANGED notGen
    /\ role = "initiator" /\ task[role].pc = "Validating"
    /\ LET nt == Outbound_validate(task[role], keypair.value, keypair.value.public)
       IN /\ task' = [task EXCEPT ![role] = nt]
          /\ sockets' = [sockets EXCEPT ![SideOf(role)].dropped = Ended(nt)]
    /\ UNCHANGED <<keypair, replay, gpc, run, outs, stamps, corpus>>

GenValidateInbound(role) ==
    /\ gpc = "block_on"
    /\ UNCHANGED notGen
    /\ role = "responder" /\ task[role].pc = "Validating"
    /\ \E e \in Byte :
         LET v == Inbound_validate(task[role], e, keypair.value, AuthMode, {}, replay)
         IN /\ task' = [task EXCEPT ![role] = v.task]
            /\ replay' = v.replay
            /\ sockets' = [sockets EXCEPT ![SideOf(role)].dropped = Ended(v.task)]
    /\ UNCHANGED <<keypair, gpc, run, outs, stamps, corpus>>

\* One step of the upgrade of a role, while block_on(join(..)) runs.
GenPoll(role) ==
    \/ GenStartOutbound(role)
    \/ GenStartInbound(role)
    \/ GenWrite(role)
    \/ GenFlush(role)
    \/ GenRead(role)
    \/ GenValidateOutbound(role)
    \/ GenValidateInbound(role)

\* Both upgrades are done: the two results are unwrapped, which panics on
\* an error, and the two capture logs are returned.
GenTake ==
    /\ gpc = "block_on"
    /\ \A r \in Roles : task[r].pc = "Done"
    /\ IF \A r \in Roles : task[r].result = "Established"
       THEN /\ outs' = Append(outs,
                         [init_msg |-> sockets["dialer"].written,
                          resp_msg |-> sockets["listener"].written,
                          static |-> keypair.value,
                          timestamp |-> task["initiator"].sent[3],
                          ephemeral |-> [r \in Roles |-> task[r].e]])
            /\ gpc' = "choose"
       ELSE /\ gpc' = "panicked"
            /\ UNCHANGED outs
    /\ UNCHANGED <<run, sockets, stamps, corpus, upgVars>>
    /\ UNCHANGED notGen

\* A plausible slip: the two branches the other way round.
generate_corpus_swapped(choice, init_msg, resp_msg) ==
    IF choice THEN resp_msg ELSE init_msg

\* generate_corpus, after generate_first_two_messages returned: one of the
\* two messages, by the boolean drawn from the generator.
generate_corpus(choice, init_msg, resp_msg) ==
    IF choice THEN init_msg ELSE resp_msg

\* gen.generate(any::<bool>()) and the return of generate_corpus.
GenChoose ==
    /\ gpc = "choose"
    /\ \E choice \in BOOLEAN :
         corpus' = Append(corpus,
                     [choice |-> choice,
                      sample |-> generate_corpus(choice, outs[Len(outs)].init_msg,
                                                 outs[Len(outs)].resp_msg)])
    /\ run' = run + 1
    /\ gpc' = IF run < NumRuns THEN "build" ELSE "finished"
    /\ UNCHANGED <<sockets, outs, stamps, upgVars>>
    /\ UNCHANGED notGen

NextGen ==
    \/ GenBuild
    \/ \E role \in Roles : GenStartOutbound(role)
    \/ \E role \in Roles : GenStartInbound(role)
    \/ \E role \in Roles : GenWrite(role)
    \/ \E role \in Roles : GenFlush(role)
    \/ \E role \in Roles : GenRead(role)
    \/ \E role \in Roles : GenValidateOutbound(role)
    \/ \E role \in Roles : GenValidateInbound(role)
    \/ GenTake
    \/ GenChoose

SpecGen == InitGen /\ [][NextGen]_vars

\* block_on(join(a, b)) polls each of the two futures as long as it can
\* make a step, and the function runs on.
SpecGenFair ==
    /\ SpecGen
    /\ WF_vars(GenBuild)
    /\ WF_vars(GenPoll("initiator"))
    /\ WF_vars(GenPoll("responder"))
    /\ WF_vars(GenTake)
    /\ WF_vars(GenChoose)

BothDone == gpc = "block_on" /\ \A r \in Roles : task[r].pc = "Done"

\* C9: in every call the two upgrades both complete, whatever the order of
\* their reads and writes, both with success, and with the same session
\* material.
C9_RoundTrip ==
    /\ <>(gpc = "finished")
    /\ [](BothDone =>
            /\ \A r \in Roles : task[r].result = "Established"
            /\ task["initiator"].session = task["responder"].session
            /\ task["initiator"].session.h = sockets["dialer"].written
                                             \o sockets["listener"].written)

\* Both upgrades of the second call are done and hold the same session.
C9_Witness ==
    /\ BothDone /\ run = NumRuns
    /\ \A r \in Roles : task[r].result = "Established"
    /\ task["initiator"].session = task["responder"].session
    /\ Len(task["initiator"].session.h) = Msg1Len + Msg2Len

\* C10 as stated: any two calls both succeed and return the same message 1
\* and the same message 2.
C10_SameMessages ==
    /\ gpc # "panicked"
    /\ \A i, j \in 1..Len(outs) :
         /\ outs[i].init_msg = outs[j].init_msg
         /\ outs[i].resp_msg = outs[j].resp_msg

\* C10 as amended: any two calls both succeed, with the same static key
\* pair and the same timestamp, and return messages of the same lengths;
\* two calls whose upgrades drew the same ephemeral keys return the same
\* message 1 and the same message 2.
C10_SameMessagesSameEphemerals ==
    /\ gpc # "panicked"
    /\ \A i, j \in 1..Len(outs) :
         /\ outs[i].static = outs[j].static
         /\ outs[i].timestamp = outs[j].timestamp
         /\ Len(outs[i].init_msg) = Len(outs[j].init_msg)
         /\ Len(outs[i].resp_msg) = Len(outs[j].resp_msg)
         /\ outs[i].ephemeral = outs[j].ephemeral =>
              /\ outs[i].init_msg = outs[j].init_msg
              /\ outs[i].resp_msg = outs[j].resp_msg

\* Two calls have returned, with the same ephemeral keys and messages.
C10_Witness ==
    /\ Len(outs) >= 2
    /\ outs[1].ephemeral = outs[2].ephemeral
    /\ outs[1].static = KEYPAIR_init /\ outs[2].static = KEYPAIR_init
    /\ outs[1].init_msg = outs[2].init_msg
    /\ outs[1].resp_msg = outs[2].resp_msg
    /\ Len(outs[1].init_msg) = Msg1Len


\* C13 as stated: every call of the timestamp provider the initiators use
\* returns a value strictly greater than every value it returned before.
C13_StrictlyIncreasing ==
    \A i, j \in 1..Len(stamps) : i < j => stamps[i] < stamps[j]

\* C13 as amended: every call of the timestamp provider the initiators use
\* returns the same value, which is the timestamp in every message 1.
C13_SameTimestamp ==
    /\ \A i, j \in 1..Len(stamps) : stamps[i] = stamps[j]
    /\ \A i \in 1..Len(outs) : outs[i].timestamp = stamps[i]

\* The provider was called for a second handshake, whose message 1 is on
\* its way with the timestamp of the first.
C13_Witness ==
    /\ Len(stamps) >= 2 /\ Len(outs) >= 1
    /\ task["initiator"].pc = "Flushing"
    /\ task["initiator"].sent[3] = outs[1].timestamp
    /\ stamps[2] = stamps[1]

\* What the initiator, and the responder, of the i-th call wrote in all.
WrittenBy(i, role) ==
    LET o == outs[i]
        m1 == Message1(o.ephemeral["initiator"], o.static, o.static.public, o.timestamp)
    IN IF role = "initiator" THEN m1
       ELSE Message2(o.ephemeral["responder"], m1, o.static.public)

\* C18: generate_corpus returns, unchanged, exactly one of the two captured
\* byte sequences: all the initiator wrote when the generated boolean is
\* true, all the responder wrote when it is false.
C18_CorpusIsOneCapture ==
    /\ Len(corpus) <= Len(outs)
    /\ \A i \in 1..Len(corpus) :
         /\ outs[i].init_msg = WrittenBy(i, "initiator")
         /\ outs[i].resp_msg = WrittenBy(i, "responder")
         /\ corpus[i].sample = IF corpus[i].choice THEN outs[i].init_msg
                               ELSE outs[i].resp_msg

\* Two calls have returned: the first the initiator's message 1, the second
\* the responder's message 2.
C18_Witness ==
    /\ Len(corpus) = 2
    /\ corpus[1].choice /\ ~corpus[2].choice
    /\ corpus[1].sample = outs[1].init_msg /\ Len(corpus[1].sample) = Msg1Len
    /\ corpus[2].sample = outs[2].resp_msg /\ Len(corpus[2].sample) = Msg2Len
(* SpecServe: one upgrader, built once with KEYPAIR and an empty replay
   window, is handed two connections, each a FakeSocket over any data; the
   two upgrades run interleaved, one socket call or one validation per
   step, and an upgrade may be dropped wherever it awaits its socket. *)
InitServe ==
    /\ keypair = Lazy_force(LazyNew)
    /\ replay = ReplayNew
    /\ task = [r \in Roles |-> TaskUnused]
    /\ ServeIdle /\ KeysIdle
    /\ FakeNew(<< >>) /\ ExpoNew /\ ChunkIdle /\ FuzzIdle /\ GenIdle

notServe == <<fakeVars, expoVars, chunkVars, fuzzVars, genVars, keysVars,
              keypair, task>>

\* Whether an attempt is being polled: handed over, not finished, not dropped.
Running(a) ==
    /\ attempts[a].role # "none"
    /\ attempts[a].task.pc \notin {"Done", "Abandoned"}

\* Whether an attempt is at an await of a socket call.
Awaiting(a) ==
    /\ Running(a)
    /\ attempts[a].task.pc \in {"Writing", "Flushing", "AwaitingPeerMessage"}

\* Attempts are numbered in the order they are handed to the upgrader.
Free(a) ==
    /\ attempts[a].role = "none"
    /\ a = "a2" => attempts["a1"].role # "none"

\* upgrade_inbound(FakeSocket { content: data }), up to its first read.
ServeAccept(a) ==
    /\ Free(a)
    /\ \E data \in SeqsUpTo(Msg1Len) :
         attempts' = [attempts EXCEPT ![a] =
                        [role |-> "responder", data |-> data, content |-> data,
                         task |-> Inbound_start(TaskNew), validated |-> FALSE,
                         last_seen |-> << >>]]
    /\ UNCHANGED replay
    /\ UNCHANGED notServe

\* upgrade_outbound(FakeSocket { content: data }, public_key, fake_timestamp),
\* up to its first write.
ServeDial(a) ==
    /\ Free(a)
    /\ \E data \in SeqsUpTo(Msg2Len), e \in Byte :
         attempts' = [attempts EXCEPT ![a] =
                        [role |-> "initiator", data |-> data, content |-> data,
                         task |-> Outbound_start(TaskNew, e, keypair.value,
                                                 keypair.value.public, fake_timestamp),
                         validated |-> FALSE, last_seen |-> << >>]]
    /\ UNCHANGED replay
    /\ UNCHANGED notServe

ServeWrite(a) ==
    /\ Running(a) /\ attempts[a].task.pc = "Writing"
    /\ LET out == FakeSocket_poll_write(attempts[a].content, attempts[a].task.out)
       IN attempts' = [attempts EXCEPT ![a].content = out.content,
                                       ![a].task = Upgrade_write(@, out.ret)]
    /\ UNCHANGED replay
    /\ UNCHANGED notServe

ServeFlush(a) ==
    /\ Running(a) /\ attempts[a].task.pc = "Flushing"
    /\ LET out == FakeSocket_poll_flush(attempts[a].content)
       IN attempts' = [attempts EXCEPT ![a].content = out.content,
                                       ![a].task = Upgrade_flush(@, attempts[a].role, out.ret)]
    /\ UNCHANGED replay
    /\ UNCHANGED notServe

ServeRead(a) ==
    /\ Running(a) /\ attempts[a].task.pc = "AwaitingPeerMessage"
    /\ LET out == FakeSocket_poll_read(attempts[a].content,
                                       TaskCall(attempts[a].task, attempts[a].role).n)
       IN attempts' = [attempts EXCEPT ![a].content = out.content,
                                       ![a].task = Upgrade_read(@, attempts[a].role, out.ret)]
    /\ UNCHANGED replay
    /\ UNCHANGED notServe

\* Message 2 is validated.
ServeValidateOutbound(a) ==
    /\ Running(a) /\ attempts[a].role = "initiator"
    /\ attempts[a].task.pc = "Validating"
    /\ LET t == Outbound_validate(attempts[a].task, keypair.value, keypair.value.public)
       IN attempts' = [attempts EXCEPT ![a].task = t,
                                       ![a].validated = (t.result = "Established")]
    /\ UNCHANGED replay
    /\ UNCHANGED notServe

\* Message 1 is validated against the replay window of the upgrader, which
\* is updated in the same step.
ServeValidateInbound(a) ==
    /\ Running(a) /\ attempts[a].role = "responder"
    /\ attempts[a].task.pc = "Validating"
    /\ \E e \in Byte :
         LET v == Inbound_validate(attempts[a].task, e, keypair.value, AuthMode, {}, replay)
         IN /\ attempts' = [attempts EXCEPT
                             ![a].task = v.task,
                             ![a].validated = (v.task.pc = "Writing"),
                             ![a].last_seen =
                                 <<replay[Message1_peer(attempts[a].task.buf, keypair.value)]>>]
            /\ replay' = v.replay
    /\ UNCHANGED notServe

\* An attempt whose future was dropped: nothing is kept of it but, if it
\* had passed validation, the message 1 it passed with.
Dropped(at) ==
    IF at.validated
    THEN [at EXCEPT !.task = [TaskNew EXCEPT !.pc = "Abandoned"], !.content = << >>]
    ELSE [AttemptNew EXCEPT !.role = at.role,
                            !.task = [TaskNew EXCEPT !.pc = "Abandoned"]]

\* A plausible slip: dropping an upgrade takes back what it stored in the
\* replay window.
ServeAbandon_rollback(a) ==
    /\ Awaiting(a)
    /\ attempts' = [attempts EXCEPT ![a] = Dropped(@)]
    /\ replay' = IF attempts[a].validated /\ attempts[a].role = "responder"
                 THEN [replay EXCEPT ![attempts[a].task.peer] = -1]
                 ELSE replay
    /\ UNCHANGED notServe

\* The future of an upgrade is dropped, and its socket and buffers with it:
\* it returns nothing, and what it committed to the replay window stays.
ServeAbandon(a) ==
    /\ Awaiting(a)
    /\ attempts' = [attempts EXCEPT ![a] = Dropped(@)]
    /\ UNCHANGED replay
    /\ UNCHANGED notServe

NextServe ==
    \/ \E a \in Attempts : ServeAccept(a)
    \/ \E a \in Attempts : ServeDial(a)
    \/ \E a \in Attempts : ServeWrite(a)
    \/ \E a \in Attempts : ServeFlush(a)
    \/ \E a \in Attempts : ServeRead(a)
    \/ \E a \in Attempts : ServeValidateOutbound(a)
    \/ \E a \in Attempts : ServeValidateInbound(a)
    \/ \E a \in Attempts : ServeAbandon(a)

SpecServe == InitServe /\ [][NextServe]_vars

\* C12: once a responder has processed a message 1 to a Session, the same
\* bytes given again to the responder with the same replay window end in
\* ReplayDetected and never yield a Session.
C12_ReplayRejected ==
    \A a, b \in Attempts :
        (/\ a # b
         /\ attempts[a].role = "responder" /\ attempts[b].role = "responder"
         /\ attempts[a].task.result = "Established"
         /\ attempts[b].data = attempts[a].data)
        => /\ attempts[b].task.session = NoSession
           /\ attempts[b].task.result \in {"none", "ReplayDetected"}
           /\ attempts[b].task.pc = "Done" => attempts[b].task.result = "ReplayDetected"

\* A message 1 was processed to a Session and the same bytes, given to the
\* same upgrader again, ended in ReplayDetected.
C12_Witness ==
    /\ attempts["a1"].role = "responder" /\ attempts["a2"].role = "responder"
    /\ attempts["a1"].task.result = "Established"
    /\ attempts["a1"].task.session # NoSession
    /\ attempts["a2"].data = attempts["a1"].data
    /\ attempts["a2"].task.pc = "Done"
    /\ attempts["a2"].task.result = "ReplayDetected"

\* The messages 2 that the responder builds in answer to message m1 of the
\* initiator with the public key s_pub.
AnswersTo(m1, s_pub) == {Message2(e, m1, s_pub) : e \in Byte}

\* What a finished attempt must end as, by the bytes it was given and the
\* replay window it was checked against.
Verdict(at) ==
    IF at.role = "responder"
    THEN IF Len(at.data) < Msg1Len THEN "Malformed"
         ELSE IF at.data \notin ValidInbound
         THEN "AuthenticationFailure"
         ELSE IF at.last_seen = << >> \/ at.data[3] <= at.last_seen[1]
         THEN "ReplayDetected"
         ELSE "Established"
    ELSE IF Len(at.data) < Msg2Len THEN "Malformed"
         ELSE IF at.data \notin AnswersTo(at.task.sent, keypair.value.public)
         THEN "AuthenticationFailure"
         ELSE "Established"

SameClaim(a, b) ==
    /\ Message1_peer(attempts[a].data, keypair.value)
         = Message1_peer(attempts[b].data, keypair.value)
    /\ attempts[a].data[3] = attempts[b].data[3]

\* C16: of two attempts against the same responder that claim the same
\* identity with the same timestamp, however their steps interleave, at
\* most one passes the replay check.
C16_AtMostOnePasses ==
    \A a, b \in Attempts :
        (/\ a # b
         /\ attempts[a].role = "responder" /\ attempts[b].role = "responder"
         /\ attempts[a].validated /\ attempts[b].validated)
        => ~SameClaim(a, b)

\* While the first attempt, which passed the replay check, is still writing
\* message 2, the second, with another message 1 of the same identity and
\* timestamp, has ended in ReplayDetected.
C16_Witness ==
    /\ attempts["a1"].role = "responder" /\ attempts["a2"].role = "responder"
    /\ attempts["a1"].validated /\ attempts["a1"].task.pc = "Writing"
    /\ attempts["a2"].task.result = "ReplayDetected"
    /\ attempts["a2"].data # attempts["a1"].data
    /\ SameClaim("a1", "a2")

\* C17: the last accepted timestamp of a peer never decreases; it changes
\* only in the step where a message 1 of that peer passes validation, to the
\* timestamp of that message; dropping an attempt leaves it as it is.
C17_WindowMonotonic ==
    [][/\ \A p \in PeerIds : replay'[p] >= replay[p]
       /\ replay' # replay =>
            \E a \in Attempts :
               /\ attempts[a].role = "responder"
               /\ attempts[a].task.pc = "Validating"
               /\ attempts'[a].validated
               /\ replay' = [replay EXCEPT
                               ![Message1_peer(attempts[a].data, keypair.value)] =
                                   attempts[a].data[3]]
       /\ \A a \in Attempts :
            (attempts[a].task.pc # "Abandoned" /\ attempts'[a].task.pc = "Abandoned")
            => replay' = replay]_vars

\* An attempt passed validation and was dropped; its timestamp is still the
\* last accepted one of its peer, and the other attempt, with the same
\* bytes, ended in ReplayDetected.
C17_Witness ==
    /\ attempts["a1"].role = "responder" /\ attempts["a1"].validated
    /\ attempts["a1"].task.pc = "Abandoned"
    /\ replay[Message1_peer(attempts["a1"].data, keypair.value)] = attempts["a1"].data[3]
    /\ attempts["a2"].data = attempts["a1"].data
    /\ attempts["a2"].task.result = "ReplayDetected"

(* SpecKeys: two threads of one process call the entry points, each up to
   MaxCalls times, in any order; a step is a call, its access to KEYPAIR, or
   the end of the closure of the Lazy. *)
EntryPoints == {"generate_first_two_messages", "fuzz_initiator", "fuzz_responder"}

InitKeys ==
    /\ KeysIdle /\ ServeIdle
    /\ FakeNew(<< >>) /\ ExpoNew /\ ChunkIdle /\ UpgIdle /\ FuzzIdle /\ GenIdle

notKeys == <<fakeVars, expoVars, chunkVars, fuzzVars, genVars, serveVars,
             task, replay>>

\* A thread enters one of the functions that start with KEYPAIR.clone().
KeysCall(t) ==
    /\ threads[t].pc = "idle" /\ threads[t].calls < MaxCalls
    /\ \E fn \in EntryPoints :
         threads' = [threads EXCEPT ![t].pc = "deref", ![t].fn = fn]
    /\ UNCHANGED keypair
    /\ UNCHANGED notKeys

\* KEYPAIR.clone(): the thread reads the cell, starts to run its closure, or
\* blocks while another thread runs it.
KeysDeref(t) ==
    /\ threads[t].pc = "deref"
    /\ LET way == Lazy_enter(keypair, \E u \in Threads : threads[u].pc = "init")
       IN threads' = [threads EXCEPT
                        ![t].pc = IF way = "read" THEN "idle" ELSE way,
                        ![t].calls = IF way = "read" THEN @ + 1 ELSE @,
                        ![t].seen = IF way = "read" THEN Append(@, keypair.value) ELSE @,
                        ![t].blocked = @ \/ way = "wait"]
    /\ UNCHANGED keypair
    /\ UNCHANGED notKeys

\* The closure ends: the key pair made from TEST_SEED is stored and cloned.
KeysInit(t) ==
    /\ threads[t].pc = "init"
    /\ keypair' = Lazy_set(keypair)
    /\ threads' = [threads EXCEPT ![t].pc = "idle", ![t].calls = @ + 1,
                                  ![t].seen = Append(@, keypair'.value)]
    /\ UNCHANGED notKeys

\* A blocked thread goes on once the cell is set, and clones its value.
KeysWake(t) ==
    /\ threads[t].pc = "wait" /\ keypair.forced
    /\ threads' = [threads EXCEPT ![t].pc = "idle", ![t].calls = @ + 1,
                                  ![t].seen = Append(@, keypair.value)]
    /\ UNCHANGED keypair
    /\ UNCHANGED notKeys

NextKeys ==
    \/ \E t \in Threads : KeysCall(t)
    \/ \E t \in Threads : KeysDeref(t)
    \/ \E t \in Threads : KeysInit(t)
    \/ \E t \in Threads : KeysWake(t)

SpecKeys == InitKeys /\ [][NextKeys]_vars

\* C14: the key pair is generated at most once in a process, also when two
\* threads access it for the first time together, and every call of an
\* entry point, in any order, gets the key pair made from the fixed seed.
C14_OneKeypair ==
    /\ keypair.times <= 1
    /\ keypair.forced => keypair.times = 1 /\ keypair.value = KEYPAIR_init
    /\ \A t, u \in Threads :
         \A i \in 1..Len(threads[t].seen), j \in 1..Len(threads[u].seen) :
            /\ threads[t].seen[i] = KEYPAIR_init
            /\ threads[t].seen[i] = threads[u].seen[j]
    /\ \A t \in Threads : Len(threads[t].seen) = threads[t].calls

\* Two threads accessed KEYPAIR for the first time together, from different
\* entry points: one ran the closure, the other waited, and both went on
\* with the same key pair.
C14_Witness ==
    /\ keypair.times = 1
    /\ threads["t1"].fn = "fuzz_responder"
    /\ threads["t2"].fn = "generate_first_two_messages"
    /\ threads["t2"].blocked /\ ~threads["t1"].blocked
    /\ threads["t1"].calls = 1 /\ threads["t2"].calls = 1
    /\ threads["t1"].seen = threads["t2"].seen
    /\ threads["t1"].seen = <<KEYPAIR_init>>

=============================================================================
